---- MODULE Spec2Model ----
(***************************************************************************)
(* A model of nbcli/_cli.py (Python 2): the command-line engine that       *)
(* reassembles a notebook cell into an argument line and a content text,   *)
(* expands $references against the session namespace, parses the           *)
(* arguments, binds the content and dispatches to the command's handler.   *)
(*                                                                         *)
(* Three specifications share the module:                                  *)
(*   SpecExpand      _expand_variables / _lookup_value on bounded values   *)
(*   SpecReassemble  the continuation loop at the head of _parse_input     *)
(*   Spec            CommandGroup.add_command and                          *)
(*                   CommandLineInterface.execute, step by step            *)
(*                                                                         *)
(* Python strings are sequences of one-character strings; Python values    *)
(* are tagged records, one field name per type so that any two values      *)
(* can be compared.                                                        *)
(***************************************************************************)
EXTENDS Naturals, Sequences, FiniteSets, TLC

VARIABLES
  xns, xvalue, xresult,          \* _expand_variables: namespace, argument, outcome
  rline, rcell, rresult,         \* reassembly: first line, cell body, outcome
  registry,                      \* command name -> what add_command stored
  ns,                            \* the session namespace handed to execute
  pc,                            \* idle | except | dispatch | done
  argv, cell,                    \* the tokenized argument line, the content text
  exc, args, content,            \* execute's locals: e, args, content
  parsed,                        \* _parse_input's local args (None until parse_args returns)
  stderr, pager, calls,          \* what this execution wrote, paged and called
  outcome, propagated, helpFor   \* terminal outcome, escaping exception, help target

xvars == <<xns, xvalue, xresult>>
rvars == <<rline, rcell, rresult>>
evars == <<registry, ns, pc, argv, cell, exc, args, content, parsed,
           stderr, pager, calls, outcome, propagated, helpFor>>
vars == <<xvars, rvars, evars>>

----------------------------------------------------------------------------
(* Bounds *)

\* _expand_variables' inputs: longest string, longest list.
MaxStrLen == 4
MaxListLen == 2
\* Reassembly: longest first line, longest cell body.
MaxLine == 3
MaxCell == 5
\* execute: most tokens on an argument line.
MaxArgs == 2

----------------------------------------------------------------------------
(* Python values *)

None == [t |-> "none"]
Int(n) == [t |-> "int", i |-> n]
Str(cs) == [t |-> "str", s |-> cs]
List(vs) == [t |-> "list", l |-> vs]
Dict(f) == [t |-> "dict", d |-> f]
Module(f) == [t |-> "module", m |-> f]

IsStr(v) == v.t = "str"

\* A Python exception: its class and its message (a format text and the
\* string substituted into it, empty when the text has no placeholder).
Exc(type, text, arg) == [type |-> type, text |-> text, arg |-> arg]

Ok(v) == [ok |-> TRUE, val |-> v]
Raise(e) == [ok |-> FALSE, exc |-> e]

\* str.split('.'): the pieces between the dots, empty pieces kept.
RECURSIVE SplitDot(_)
SplitDot(s) ==
  IF s = <<>> THEN << <<>> >>
  ELSE IF Head(s) = "." THEN << <<>> >> \o SplitDot(Tail(s))
  ELSE LET r == SplitDot(Tail(s))
       IN  << <<Head(s)>> \o Head(r) >> \o Tail(r)

\* _lookup_value's loop body for the members still to walk.  Python's None
\* is both the not-found result and a value a namespace may hold.
RECURSIVE LookupMembers(_, _)
LookupMembers(obj, members) ==
  IF members = <<>> THEN obj
  ELSE LET member == Head(members)
       IN  IF obj.t = "dict" /\ member \in DOMAIN obj.d
             THEN LookupMembers(obj.d[member], Tail(members))
           ELSE IF obj.t = "module" /\ member \in DOMAIN obj.m
             THEN LookupMembers(obj.m[member], Tail(members))
           ELSE None

LookupValue(obj, name) == LookupMembers(obj, SplitDot(name))

IndexErrorExc == Exc("IndexError", "string index out of range", <<>>)
NotFoundExc(name) == Exc("Exception", "Unable to find a valid value for \"%s\".", name)

\* The elif of _expand_variables for a string: value[0] raises IndexError on
\* the empty string; a '$' string is looked up and a None result raises.
ExpandStr(nsp, value) ==
  IF value.s = <<>> THEN Raise(IndexErrorExc)
  ELSE IF Head(value.s) = "$"
    THEN LET name == Tail(value.s)
             found == LookupValue(nsp, name)
         IN  IF found = None THEN Raise(NotFoundExc(name)) ELSE Ok(found)
    ELSE Ok(value)

\* _expand_variables.  A comprehension stops at the first element that
\* raises: the lowest index of a list; for a dict the iteration order is the
\* hash order, represented by a fixed choice among the failing keys.
RECURSIVE ExpandVariables(_, _)
ExpandVariables(nsp, value) ==
  IF value.t = "dict" THEN
    LET r == [k \in DOMAIN value.d |-> ExpandVariables(nsp, value.d[k])]
        bad == {k \in DOMAIN value.d : ~r[k].ok}
    IN  IF bad = {} THEN Ok(Dict([k \in DOMAIN value.d |-> r[k].val]))
        ELSE r[CHOOSE k \in bad : TRUE]
  ELSE IF value.t = "list" THEN
    LET r == [i \in DOMAIN value.l |-> ExpandVariables(nsp, value.l[i])]
        bad == {i \in DOMAIN value.l : ~r[i].ok}
    IN  IF bad = {} THEN Ok(List([i \in DOMAIN value.l |-> r[i].val]))
        ELSE r[CHOOSE i \in bad : \A j \in bad : i <= j]
  ELSE IF IsStr(value) THEN ExpandStr(nsp, value)
  ELSE Ok(value)

----------------------------------------------------------------------------
(* The bounded universe of _expand_variables' inputs *)

Chars == {"$", ".", "a", "b"}

SeqsUpTo(S, n) == UNION {[1..k -> S] : k \in 0..n}

Strings == {Str(cs) : cs \in SeqsUpTo(Chars, MaxStrLen)}
ShortStrings == {Str(cs) : cs \in SeqsUpTo(Chars, 1)} \cup {Str(<<"$", "a">>)}
Scalars == {None, Int(1)}
Keys == {<<"a">>, <<"b">>}

Elems == Scalars \cup ShortStrings
Lists(S) == {List(vs) : vs \in SeqsUpTo(S, MaxListLen)}
Dicts(S) == {Dict(f) : f \in UNION {[K -> S] : K \in SUBSET Keys}}
Inner == {List(<<>>), List(<<Str(<<>>)>>), List(<<Str(<<"a">>)>>),
          List(<<Str(<<"$", "a">>)>>), Dict([k \in {<<"a">>} |-> Str(<<>>)]),
          Dict([k \in {<<"a">>} |-> Int(1)])}
Values == Scalars \cup Strings \cup Lists(Elems) \cup Dicts(Elems)
            \cup Lists(Inner) \cup Dicts(Inner)

NsLeaves == {None, Int(1), Str(<<"a">>), Str(<<>>)}
NsInner == {Dict([k \in {<<"b">>} |-> v]) : v \in NsLeaves}
             \cup {Module([k \in {<<"b">>} |-> v]) : v \in NsLeaves}
NsValues == NsLeaves \cup NsInner
Namespaces == {Dict(f) : f \in UNION {[K -> NsValues] : K \in {{<<"a">>}, Keys}}}

----------------------------------------------------------------------------
(* SpecExpand: one call of _expand_variables(ns, value) *)

Pending == [st |-> "pending"]

RInit == rline = <<>> /\ rcell = <<>> /\ rresult = Pending
XIdle == xns = Dict(<<>>) /\ xvalue = None /\ xresult = Pending
EIdle ==
  /\ registry = <<>> /\ ns = Dict(<<>>) /\ pc = "idle" /\ argv = Pending
  /\ cell = <<>> /\ exc = None /\ args = None /\ content = None /\ parsed = None
  /\ stderr = <<>> /\ pager = <<>> /\ calls = <<>> /\ outcome = "none"
  /\ propagated = None /\ helpFor = None

XInit ==
  /\ xns \in Namespaces
  /\ xvalue \in Values
  /\ xresult = Pending
  /\ RInit /\ EIdle

Expand ==
  /\ xresult = Pending
  /\ xresult' = [st |-> "done", r |-> ExpandVariables(xns, xvalue)]
  /\ UNCHANGED <<xns, xvalue, rvars, evars>>

XNext == Expand
SpecExpand == XInit /\ [][XNext]_vars

----------------------------------------------------------------------------
(* Reassembly: the head of _parse_input (lines 233-240) *)

LineChars == {"c", " ", "\\"}
CellChars == LineChars \cup {"\n"}
Whitespace == {" ", "\n"}

Last(s) == s[Len(s)]
Front(s) == SubSeq(s, 1, Len(s) - 1)

\* str.rstrip(chars): drop the trailing characters that are in cs.
RECURSIVE RStrip(_, _)
RStrip(s, cs) ==
  IF s # <<>> /\ Last(s) \in cs THEN RStrip(Front(s), cs) ELSE s

RECURSIVE LStrip(_, _)
LStrip(s, cs) ==
  IF s # <<>> /\ Head(s) \in cs THEN LStrip(Tail(s), cs) ELSE s

\* Iterating a cStringIO buffer: the next line, its newline included, and
\* what the buffer still holds after it.
RECURSIVE NextLineLen(_)
NextLineLen(buf) ==
  IF buf = <<>> THEN 0
  ELSE IF Head(buf) = "\n" THEN 1
  ELSE 1 + NextLineLen(Tail(buf))

ReadLine(buf) == SubSeq(buf, 1, NextLineLen(buf))
AfterLine(buf) == SubSeq(buf, NextLineLen(buf) + 1, Len(buf))

\* Variant of line 237 that also drops the blank before the marker.
JoinTrimmed(line, l) ==
  RStrip(RStrip(line, {"\\"}), Whitespace) \o <<" ">> \o RStrip(l, {"\n"})

\* line 237: line = line.rstrip('\\') + ' ' + l.rstrip('\n')
ContinueLine(line, l) == RStrip(line, {"\\"}) \o <<" ">> \o RStrip(l, {"\n"})

\* Variant of line 239 with strip() in place of rstrip().
RestStripped(rest) == LStrip(RStrip(rest, Whitespace), Whitespace)

\* line 239: cell = buffer.read().rstrip()
RemainingContent(rest) == RStrip(rest, Whitespace)

\* lines 236-240: the for loop over the buffer.  When the buffer runs out
\* before a break, cell is never assigned and keeps the whole body.
RECURSIVE ContinuationLoop(_, _, _)
ContinuationLoop(line, buf, body) ==
  IF buf = <<>> THEN [line |-> line, cell |-> body]
  ELSE LET joined == ContinueLine(line, ReadLine(buf))
       IN  IF Last(joined) # "\\"
             THEN [line |-> joined, cell |-> RemainingContent(AfterLine(buf))]
             ELSE ContinuationLoop(joined, AfterLine(buf), body)

\* lines 233-240; line[-1] raises IndexError when the trimmed line is empty.
Reassemble(line, body) ==
  LET trimmed == RStrip(line, Whitespace)
  IN  IF trimmed = <<>> THEN Raise(IndexErrorExc)
      ELSE IF Last(trimmed) = "\\"
        THEN Ok(ContinuationLoop(trimmed, body, body))
        ELSE Ok([line |-> trimmed, cell |-> body])

RIn ==
  /\ rline \in SeqsUpTo(LineChars, MaxLine)
  /\ rcell \in SeqsUpTo(CellChars, MaxCell)
  /\ rresult = Pending
  /\ XIdle /\ EIdle

DoReassemble ==
  /\ rresult = Pending
  /\ rresult' = [st |-> "done", r |-> Reassemble(rline, rcell)]
  /\ UNCHANGED <<rline, rcell, xvars, evars>>

RNext == DoReassemble
SpecReassemble == RIn /\ [][RNext]_vars

----------------------------------------------------------------------------
(* Registration: CommandGroup.add_command and the content bindings *)

NameSet == {<<"c">>, <<"d">>}
DocText == Str(<<"d", "o", "c">>)

\* The spec function of sample/_foo.py returns two example documents
\* (name and xyz are written n and x).
FooExamples ==
  List(<<Dict([k \in {<<"n">>} |-> Str(<<>>)]),
         Dict([k \in {<<"n">>, <<"x">>} |-> IF k = <<"n">> THEN Str(<<>>) ELSE Int(123)])>>)

\* A content function: its docstring and what calling it returns.
Fn(doc, ret) == [t |-> "fn", doc |-> doc, ret |-> ret]

\* What a caller may pass as add_command's content.
ContentArgs ==
  {None, Str(<<>>), DocText}
    \cup {Fn(doc, ret) : doc \in {None, DocText}, ret \in {None, FooExamples}}

\* Python truth of a content argument (line 107): None and '' are false.
Truthy(v) == ~(v = None \/ (v.t = "str" /\ v.s = <<>>))

\* genson's schema of example objects: the keys every example has are
\* required, every key seen has the type it was seen with.
InferSchema(examples) ==
  LET docs == {examples.l[i] : i \in DOMAIN examples.l}
      keys == UNION {DOMAIN e.d : e \in docs}
  IN  [t |-> "schema",
       required |-> {k \in keys : \A e \in docs : k \in DOMAIN e.d},
       types |-> [k \in keys |-> (CHOOSE e \in docs : k \in DOMAIN e.d).d[k].t]]

\* CommandContent.__init__ / YamlCommandContent.__init__
CommandContent(doc) == [t |-> "text", doc |-> doc]

YamlCommandContent(fn) ==
  [t |-> "yaml", doc |-> fn.doc,
   schema |-> IF fn.ret = None THEN None
              ELSE IF fn.ret.t = "list" THEN InferSchema(fn.ret)
              ELSE fn.ret]

\* lines 107-112: the _content default of the command's parser, None when
\* set_defaults(_content=...) is not reached.
BindContent(arg) ==
  IF Truthy(arg)
    THEN IF arg.t = "fn" THEN YamlCommandContent(arg) ELSE CommandContent(arg)
    ELSE None

\* add_command: argparse keeps one parser per name, the last one added.
AddCommand ==
  /\ pc = "idle"
  /\ \E name \in NameSet, arg \in ContentArgs :
       registry' = [n \in DOMAIN registry \cup {name} |->
                      IF n = name THEN [handler |-> name, content |-> BindContent(arg)]
                      ELSE registry[n]]
  /\ UNCHANGED <<ns, pc, argv, cell, exc, args, content, parsed,
                 stderr, pager, calls, outcome, propagated, helpFor>>
  /\ UNCHANGED <<xvars, rvars>>

----------------------------------------------------------------------------
(* Content parsing: CommandContent.parse, YamlCommandContent.parse *)

NonAscii == {"\\xe9"}

\* yaml.load on the one-line documents of CellTexts: `~` is null, `k: v` a
\* mapping with one key whose value is the scalar v ('' the empty string),
\* anything else here is malformed.
YamlScalar(cs) == IF cs = <<"'", "'">> THEN Str(<<>>) ELSE Str(cs)

YamlLoad(text) ==
  IF text = <<"~">> THEN Ok(None)
  ELSE IF Len(text) >= 4 /\ text[2] = ":" /\ text[3] = " "
    THEN Ok(Dict([k \in {<<text[1]>>} |-> YamlScalar(SubSeq(text, 4, Len(text)))]))
  ELSE Raise(Exc("ParserError", "while parsing a flow node", <<>>))

\* jsonschema.validate against an inferred schema.
Valid(v, schema) ==
  /\ v.t = "dict"
  /\ schema.required \subseteq DOMAIN v.d
  /\ \A k \in DOMAIN v.d \cap DOMAIN schema.types : v.d[k].t = schema.types[k]

\* lines 178-179 and 197-202
ParseContent(binding, text, nsp) ==
  IF binding.t = "text" THEN Ok(Str(text))
  ELSE LET loaded == YamlLoad(text)
       IN  IF ~loaded.ok THEN loaded
           ELSE LET expanded == ExpandVariables(nsp, loaded.val)
                IN  IF ~expanded.ok THEN expanded
                    ELSE IF binding.schema # None /\ ~Valid(expanded.val, binding.schema)
                      THEN Raise(Exc("ValidationError", "is not valid under the schema", <<>>))
                    ELSE expanded

----------------------------------------------------------------------------
(* Argument parsing: CommandLineParser over the registered commands *)

HelpExc == Exc("Exception", "Help", <<>>)
HelpFlag == <<"-", "h">>

\* The parser whose help is asked for: the root or a command's.
RootParser == [t |-> "root"]
CommandParser(name) == [t |-> "command", name |-> name]

\* get_default('_content') of a parser (line 43).
DefaultContent(target, reg) ==
  IF target.t = "command" THEN reg[target.name].content ELSE None

\* format_help (lines 37-49): the text is paged unless appending
\* content.doc raises.
FormatHelp(target, reg) ==
  LET binding == DefaultContent(target, reg)
  IN  IF binding = None
        THEN [res |-> Ok(None), paged |-> <<[usage |-> target, content |-> None]>>]
      ELSE IF binding.doc = None
        THEN [res |-> Raise(Exc("TypeError",
                 "cannot concatenate 'str' and 'NoneType' objects", <<>>)),
              paged |-> <<>>]
      ELSE [res |-> Ok(None), paged |-> <<[usage |-> target, content |-> binding.doc]>>]

\* -h: print_help, then exit() (lines 27-33) raises Exception('Help').
HelpAction(target, reg) ==
  LET h == FormatHelp(target, reg)
  IN  [res |-> IF h.res.ok THEN Raise(HelpExc) ELSE h.res,
       paged |-> h.paged, help |-> target]

ArgError(text) ==
  [res |-> Raise(Exc("Exception", text, <<>>)), paged |-> <<>>, help |-> None]

\* parse_args (line 245) on the expanded tokens: the first token selects the
\* command, -h anywhere after it asks for the command's help, any other
\* further token is unrecognized.  error() (line 25) raises.
ParseArgs(tokens, reg) ==
  IF \E i \in DOMAIN tokens : tokens[i].t # "str"
    THEN [res |-> Raise(Exc("TypeError", "object has no attribute '__getitem__'", <<>>)),
          paged |-> <<>>, help |-> None]
  ELSE IF tokens[1].s = HelpFlag THEN HelpAction(RootParser, reg)
  ELSE IF tokens[1].s \notin DOMAIN reg THEN ArgError("invalid choice")
  ELSE LET name == tokens[1].s
       IN  IF \E i \in 2..Len(tokens) : tokens[i].s = HelpFlag
             THEN HelpAction(CommandParser(name), reg)
           ELSE IF Len(tokens) > 1 THEN ArgError("unrecognized arguments")
           ELSE [res |-> Ok([cmd |-> name, handler |-> reg[name].handler,
                             binding |-> reg[name].content]),
                 paged |-> <<>>, help |-> None]

----------------------------------------------------------------------------
(* _parse_input from line 244 on, and CommandLineInterface.execute *)

ContentRequiredExc == Exc("Exception", "Content must be specified for this command.", <<>>)
ContentUnsupportedExc == Exc("Exception", "Content is not supported for this command.", <<>>)

\* Variant of lines 250-256 without the two arity checks.
BindAnyText(binding, text, nsp) ==
  IF binding # None THEN ParseContent(binding, text, nsp) ELSE Ok(None)

\* lines 250-256: the content arity check and the content parse.
BindCell(binding, text, nsp) ==
  IF binding # None
    THEN IF text = <<>> THEN Raise(ContentRequiredExc)
         ELSE ParseContent(binding, text, nsp)
    ELSE IF text # <<>> THEN Raise(ContentUnsupportedExc)
         ELSE Ok(None)

\* _parse_input.  split is what lines 233-244 made of the line: the
\* IndexError of an empty line, shlex's ValueError, or the tokens (at least
\* one, the trimmed line not being empty).  The
\* result names the stage that raised, what was paged, the help target and
\* the local args.
Failed(stage, e, paged, help, local) ==
  [res |-> Raise(e), stage |-> stage, paged |-> paged, help |-> help, parsed |-> local]

ParseInput(split, text, nsp, reg) ==
  IF ~split.ok THEN Failed("split", split.exc, <<>>, None, None)
  ELSE LET expanded == ExpandVariables(nsp, List(split.val))
       IN  IF ~expanded.ok THEN Failed("expand", expanded.exc, <<>>, None, None)
           ELSE LET p == ParseArgs(expanded.val.l, reg)
                IN  IF ~p.res.ok THEN Failed("parse", p.res.exc, p.paged, p.help, None)
                    ELSE LET c == BindCell(p.res.val.binding, text, nsp)
                         IN  IF ~c.ok
                               THEN Failed("content", c.exc, <<>>, None, p.res.val)
                               ELSE [res |-> Ok([args |-> p.res.val, content |-> c.val]),
                                     stage |-> "bound", paged |-> <<>>,
                                     help |-> None, parsed |-> p.res.val]

\* The terminal outcome a failed _parse_input stands for.
FailureOutcome(r) ==
  IF r.res.exc = HelpExc /\ r.help # None THEN "HelpRequested"
  ELSE IF r.stage = "content" THEN "ContentFailed"
  ELSE "ParseFailed"

\* The inputs of one execution.
Tokens ==
  {Str(<<"c">>), Str(<<"d">>), Str(HelpFlag), Str(<<>>),
   Str(<<"$", "a">>), Str(<<"$", "n">>), Str(<<"$", "q">>)}

Splits ==
  {Raise(IndexErrorExc), Raise(Exc("ValueError", "No closing quotation", <<>>))}
    \cup {Ok(ts) : ts \in SeqsUpTo(Tokens, MaxArgs) \ {<<>>}}

CellTexts ==
  {<<>>, <<"~">>,
   <<"n", ":", " ", "a">>, <<"x", ":", " ", "a">>, <<"n", ":", " ", "'", "'">>,
   <<"n", ":", " ", "$", "a">>, <<"n", ":", " ", "$", "n">>,
   <<"n", ":", " ", "$", "q">>, <<"n", ":", " ", "$", "\\xe9">>,
   <<"[">>}

\* The session namespace: a may be bound to the string 'c', n to None.
\* Handlers bind and delete session variables (sample/_foo.py).
SessionStates ==
  {Dict([k \in K |-> IF k = <<"a">> THEN Str(<<"c">>) ELSE None]) :
     K \in SUBSET {<<"a">>, <<"n">>}}

\* lines 143-145: the try block.
Execute ==
  /\ pc = "idle"
  /\ \E split \in Splits, text \in CellTexts :
       LET r == ParseInput(split, text, ns, registry)
       IN  /\ argv' = split
           /\ cell' = text
           /\ parsed' = r.parsed
           /\ pager' = r.paged
           /\ helpFor' = r.help
           /\ IF r.res.ok
                THEN /\ args' = r.res.val.args
                     /\ content' = r.res.val.content
                     /\ exc' = None
                     /\ outcome' = "ContentBound"
                     /\ pc' = "dispatch"
                ELSE /\ args' = None
                     /\ content' = None
                     /\ exc' = r.res.exc
                     /\ outcome' = FailureOutcome(r)
                     /\ pc' = "except"
  /\ stderr' = <<>>
  /\ calls' = <<>>
  /\ propagated' = None
  /\ UNCHANGED <<registry, ns, xvars, rvars>>

\* str(e) in Python 2: the message is encoded as ASCII, which raises
\* UnicodeEncodeError when the text substituted into it is not ASCII.
StrOf(e) ==
  IF \E i \in DOMAIN e.arg : e.arg[i] \in NonAscii
    THEN Raise(Exc("UnicodeEncodeError", "'ascii' codec can't encode character", <<>>))
    ELSE Ok([text |-> e.text, arg |-> e.arg])

ErrorLine(error) == [prefix |-> "Error: ", text |-> error.text, arg |-> error.arg]

\* lines 146-150: the except clause.
Except ==
  /\ pc = "except"
  /\ LET error == StrOf(exc)
     IN  IF ~error.ok
           THEN propagated' = error.exc /\ stderr' = stderr
           ELSE /\ propagated' = propagated
                /\ stderr' = IF error.val.text # "Help"
                               THEN Append(stderr, ErrorLine(error.val))
                               ELSE stderr
  /\ pc' = "done"
  /\ UNCHANGED <<registry, ns, argv, cell, exc, args, content, parsed,
                 pager, calls, outcome, helpFor, xvars, rvars>>

HandlerFault == Exc("HandlerFault", "raised by the handler", <<>>)

\* lines 152-155: the handler is called with content only when content is
\* not None; whatever it raises leaves execute.
HandlerCall(a, c) ==
  IF c # None
    THEN [handler |-> a.handler, nargs |-> 3, content |-> c]
    ELSE [handler |-> a.handler, nargs |-> 2, content |-> None]

\* Variant of the dispatch that calls the handler a second time.
DispatchTwice ==
  /\ pc = "dispatch"
  /\ calls' = calls \o <<HandlerCall(args, content), HandlerCall(args, content)>>
  /\ propagated' = propagated
  /\ outcome' = "Dispatched"
  /\ pc' = "done"
  /\ UNCHANGED <<registry, ns, argv, cell, exc, args, content, parsed,
                 stderr, pager, helpFor, xvars, rvars>>

\* lines 152-155; the handler may change the session namespace.
Dispatch ==
  /\ pc = "dispatch"
  /\ calls' = Append(calls, HandlerCall(args, content))
  /\ \E fault \in {None, HandlerFault} : propagated' = fault
  /\ ns' \in SessionStates
  /\ outcome' = "Dispatched"
  /\ pc' = "done"
  /\ UNCHANGED <<registry, argv, cell, exc, args, content, parsed,
                 stderr, pager, helpFor, xvars, rvars>>

\* execute is left, by return or by the exception that escapes it; its
\* locals and what the execution showed are dropped.
Return ==
  /\ pc = "done"
  /\ pc' = "idle" /\ argv' = Pending /\ cell' = <<>>
  /\ exc' = None /\ args' = None /\ content' = None /\ parsed' = None
  /\ stderr' = <<>> /\ pager' = <<>> /\ calls' = <<>>
  /\ outcome' = "none" /\ propagated' = None /\ helpFor' = None
  /\ UNCHANGED <<registry, ns, xvars, rvars>>

Init ==
  /\ registry = <<>>
  /\ ns \in SessionStates
  /\ pc = "idle" /\ argv = Pending /\ cell = <<>>
  /\ exc = None /\ args = None /\ content = None /\ parsed = None
  /\ stderr = <<>> /\ pager = <<>> /\ calls = <<>>
  /\ outcome = "none" /\ propagated = None /\ helpFor = None
  /\ XIdle /\ RInit

Next == AddCommand \/ Execute \/ Except \/ Dispatch \/ Return
Spec == Init /\ [][Next]_vars

----------------------------------------------------------------------------
(* Properties of execute (Spec) *)

Outcomes == {"HelpRequested", "ParseFailed", "ContentFailed", "Dispatched"}

\* The content binding the resolved command was registered with.
ResolvedBinding == registry[parsed.cmd].content

Reported(e) == <<[prefix |-> "Error: ", text |-> e.text, arg |-> e.arg]>>

\* C1: every execution ends in exactly one of HelpRequested, ParseFailed,
\* ContentFailed and Dispatched; the resolved command's handler is called
\* exactly once when it ends Dispatched and never otherwise, and nothing has
\* been called or reported before the single attempt is over.
C1_TerminalOutcome ==
  /\ pc \in {"except", "dispatch"} => (calls = <<>> /\ stderr = <<>>)
  /\ pc = "done" =>
       /\ outcome \in Outcomes
       /\ outcome = "HelpRequested" <=> (helpFor # None /\ exc = HelpExc)
       /\ outcome = "ParseFailed" <=> (exc # None /\ exc # HelpExc /\ parsed = None)
       /\ outcome = "ContentFailed" <=> (exc # None /\ parsed # None)
       /\ outcome = "Dispatched" <=> exc = None
       /\ outcome = "Dispatched" =>
            (Len(calls) = 1 /\ calls[1].handler = registry[parsed.cmd].handler)
       /\ outcome # "Dispatched" => calls = <<>>

C1_Witness ==
  /\ pc = "done" /\ outcome = "Dispatched"
  /\ DOMAIN registry = NameSet
  /\ parsed.cmd = <<"d">>
  /\ Len(calls) = 1 /\ calls[1].handler = <<"d">>

\* C2: when the argument line parses to a registered command, a command
\* with a content binding and empty content text fails with the
\* content-required error, a command without binding and non-empty content
\* text fails with the content-not-supported error, and in neither case is
\* the handler called.
C2_ContentArity ==
  (pc = "done" /\ parsed # None) =>
    /\ (ResolvedBinding # None /\ cell = <<>>) =>
         (exc = ContentRequiredExc /\ stderr = Reported(ContentRequiredExc)
            /\ calls = <<>>)
    /\ (ResolvedBinding = None /\ cell # <<>>) =>
         (exc = ContentUnsupportedExc /\ stderr = Reported(ContentUnsupportedExc)
            /\ calls = <<>>)

C2_Witness ==
  /\ pc = "done" /\ parsed # None
  /\ ResolvedBinding # None /\ ResolvedBinding.t = "yaml" /\ cell = <<>>
  /\ exc = ContentRequiredExc /\ calls = <<>>

\* C3: every failure raised by _parse_input is contained by execute: one
\* error message is written and nothing escapes; the handler's own fault is
\* not reported by execute.
C3_Containment ==
  pc = "done" =>
    /\ (exc # None /\ exc # HelpExc) => (Len(stderr) = 1 /\ propagated = None)
    /\ outcome = "Dispatched" => stderr = <<>>

\* C4: a dispatched command that declares a content binding has its handler
\* called with three arguments (args, content, namespace) whatever the
\* binder returned; one that declares none is called with two.
C4_HandlerArguments ==
  (pc = "done" /\ outcome = "Dispatched") =>
    /\ ResolvedBinding # None =>
         (calls[1].nargs = 3 /\ calls[1].content = content)
    /\ ResolvedBinding = None => calls[1].nargs = 2

\* C8: a help request pages the help text, calls no handler and writes no
\* error; for a command that declares a content binding the text carries
\* the binding's documentation under a content section.
C8_Help ==
  (pc = "done" /\ helpFor # None) =>
    /\ calls = <<>>
    /\ stderr = <<>>
    /\ Len(pager) = 1
    /\ pager[1].usage = helpFor
    /\ DefaultContent(helpFor, registry) # None =>
         (pager[1].content # None
            /\ pager[1].content = DefaultContent(helpFor, registry).doc)

----------------------------------------------------------------------------
(* Properties of _expand_variables (SpecExpand) *)

\* No string anywhere in v begins with '$'.
RECURSIVE NoDollarString(_)
NoDollarString(v) ==
  IF v.t = "dict" THEN \A k \in DOMAIN v.d : NoDollarString(v.d[k])
  ELSE IF v.t = "list" THEN \A i \in DOMAIN v.l : NoDollarString(v.l[i])
  ELSE IF v.t = "str" THEN v.s = <<>> \/ Head(v.s) # "$"
  ELSE TRUE

\* Walking a namespace along path segments: every segment is a key of the
\* current mapping or a member of the current module.
HasMember(obj, seg) ==
  \/ obj.t = "dict" /\ seg \in DOMAIN obj.d
  \/ obj.t = "module" /\ seg \in DOMAIN obj.m

Member(obj, seg) == IF obj.t = "dict" THEN obj.d[seg] ELSE obj.m[seg]

RECURSIVE Resolvable(_, _)
Resolvable(obj, segs) ==
  segs = <<>> \/ (HasMember(obj, Head(segs)) /\ Resolvable(Member(obj, Head(segs)), Tail(segs)))

RECURSIVE Walk(_, _)
Walk(obj, segs) ==
  IF segs = <<>> THEN obj ELSE Walk(Member(obj, Head(segs)), Tail(segs))

IsReference(v) == v.t = "str" /\ v.s # <<>> /\ Head(v.s) = "$"

\* C5: for every namespace and every value holding no string that begins
\* with '$' (empty strings included), _expand_variables returns a value
\* equal to its argument and does not fail.
C5_ExpandIdentity ==
  (xresult.st = "done" /\ NoDollarString(xvalue)) => xresult.r = Ok(xvalue)

\* C6: for every path whose segments all resolve in the namespace,
\* _expand_variables(ns, "$" + path) returns exactly the value the walk
\* reaches, None included, and does not fail.
C6_ExpandReference ==
  (xresult.st = "done" /\ IsReference(xvalue)
     /\ Resolvable(xns, SplitDot(Tail(xvalue.s))))
  => xresult.r = Ok(Walk(xns, SplitDot(Tail(xvalue.s))))

----------------------------------------------------------------------------
(* Properties of the reassembly (SpecReassemble) *)

EndsWithMarker(s) == s # <<>> /\ Last(s) = "\\"

\* The cell's lines, newlines dropped.
RECURSIVE CellLines(_)
CellLines(buf) ==
  IF buf = <<>> THEN <<>>
  ELSE <<RStrip(ReadLine(buf), {"\n"})>> \o CellLines(AfterLine(buf))

\* The cell without its first k lines.
RECURSIVE DropLines(_, _)
DropLines(buf, k) == IF k = 0 THEN buf ELSE DropLines(AfterLine(buf), k - 1)

\* Index of the first line that does not end with the marker, 0 if none.
FirstPlain(ls) ==
  IF \A i \in DOMAIN ls : EndsWithMarker(ls[i]) THEN 0
  ELSE CHOOSE i \in DOMAIN ls :
         ~EndsWithMarker(ls[i]) /\ \A j \in 1..(i - 1) : EndsWithMarker(ls[j])

RECURSIVE JoinSpace(_)
JoinSpace(ps) ==
  IF Len(ps) = 1 THEN ps[1] ELSE ps[1] \o <<" ">> \o JoinSpace(Tail(ps))

IsPrefix(p, s) == Len(p) <= Len(s) /\ SubSeq(s, 1, Len(p)) = p

StripMarkers(p) == RStrip(p, {"\\"})
StripMarkersAndBlank(p) ==
  IF EndsWithMarker(p) THEN RStrip(RStrip(p, {"\\"}), Whitespace) ELSE p

TrimmedLine == RStrip(rline, Whitespace)
Consumed == FirstPlain(CellLines(rcell))
Pieces == <<TrimmedLine>> \o SubSeq(CellLines(rcell), 1, Consumed)
Reassembled == rresult.st = "done" /\ EndsWithMarker(TrimmedLine) /\ Consumed > 0
NotContinued == rresult.st = "done" /\ TrimmedLine # <<>> /\ ~EndsWithMarker(TrimmedLine)

C9_AwaitingAtEnd ==
  (rresult.st = "done" /\ EndsWithMarker(TrimmedLine) /\ Consumed = 0)
  => (rresult.r.ok /\ rresult.r.val.cell = <<>>)

\* C10, as claimed: the content is the unconsumed lines with leading and
\* trailing whitespace trimmed.
C10_AsClaimed ==
  Reassembled =>
    rresult.r.val.cell =
      LStrip(RStrip(DropLines(rcell, Consumed), Whitespace), Whitespace)

\* C10, amended: the content is the unconsumed lines with trailing
\* whitespace trimmed and leading whitespace kept; a remainder of
\* whitespace only yields empty content.
C10_RemainingContent ==
  Reassembled =>
    /\ rresult.r.val.cell = RStrip(DropLines(rcell, Consumed), Whitespace)
    /\ (\A i \in DOMAIN DropLines(rcell, Consumed) :
          DropLines(rcell, Consumed)[i] \in Whitespace)
       => rresult.r.val.cell = <<>>

C10_Witness ==
  /\ Reassembled
  /\ DropLines(rcell, Consumed) # <<>>
  /\ Head(DropLines(rcell, Consumed)) \in Whitespace
  /\ Last(DropLines(rcell, Consumed)) \in Whitespace
  /\ rresult.r.val.cell # <<>>
  /\ Head(rresult.r.val.cell) \in Whitespace
  /\ Last(rresult.r.val.cell) \notin Whitespace

====
